---- MODULE Spec2Model ----
(***************************************************************************)
(* Task-lifecycle engine of the TaskHub backend: the tasks and             *)
(* notifications tables, the analytics overview cache entry, and the       *)
(* handlers that change them (periodic sweep, startup reconciliation,      *)
(* lazy evaluation in get_overview, task create/update/delete and the      *)
(* notify-overdue endpoint).                                               *)
(***************************************************************************)
EXTENDS Integers, FiniteSets, Sequences, TLC

\* ---------------------------------------------------------------- bounds
MaxTasks == 1        \* rows of the tasks table
MaxNow == 2          \* the wall clock runs over 0..MaxNow
MaxNotifs == 2       \* TASK_OVERDUE notifications kept per task
MaxEvaluators == 2   \* engine runs that can be in flight at once
MaxBulk == 1         \* items in the body of one bulk_create_tasks request
MaxSessions == 2     \* websocket connections one user opens over time
MaxComments == 1     \* rows of the comments table
MaxRefused == 1      \* websocket connections that are turned away

TaskIds == 1..MaxTasks
Evaluators == 1..MaxEvaluators
Dates == 1..(MaxNow - 1)
Users == {1, 2}      \* the users that open websocket connections
Sessions == 1..MaxSessions

\* SQL NULL / Python None of a nullable column or an optional request field
NULL == 0 - 1
NONE == "none"

\* ---------------------------------------------------------------- models.py
TODO == "todo"
IN_PROGRESS == "in_progress"
COMPLETED == "completed"
OVERDUE == "overdue"
TaskStatus == {TODO, IN_PROGRESS, COMPLETED, OVERDUE}

\* The columns of Task the engine reads or writes.
Task == [status : TaskStatus,
         start_date : Dates \cup {NULL},
         due_date : Dates \cup {NULL},
         notify_overdue : BOOLEAN,
         is_deleted : BOOLEAN]

VARIABLES
    tasks,          \* tasks table: id -> row, DOMAIN tasks are the rows that exist
    notifications,  \* notifications table: per task, its TASK_OVERDUE rows (count)
    now,            \* datetime.now(timezone.utc)
    cache,          \* redis entry analytics:overview:<user>, NoEntry when absent
    inflight,       \* per evaluator: the open transaction of a sweep or startup run
    transitions,    \* history: times a task's status changed into OVERDUE
    superseded,     \* history: the status was set by a user edit out of OVERDUE
    last,           \* history: the handler that ran last and what it did
    comments,       \* comments table: id -> row
    tasks_cache,    \* redis entry tasks:<user>:<query>, NoEntry when absent
    active_connections, \* manager.active_connections: user_id -> list of websockets
    dk_entries,     \* the entry table of that dict: its keys in insertion order
    bcast,          \* the frame of the manager.broadcast call in progress
    accepted,       \* history: the websockets connect has accepted
    closed,         \* history: the websockets disconnect has removed
    ended,          \* history: the websockets whose network connection has ended
    psend,          \* history: the last manager.send_personal call
    owners,         \* per task: its assigned_to and created_by columns
    notif_to,       \* notifications table: the (task_id, user_id) pairs that exist
    outbox,         \* the emails handed to send_email_notification: (task, user)
    settings,       \* app.config.settings: SMTP_USER and SMTP_PASSWORD
    smtp,           \* history: the emails an SMTP session was opened for
    pending,        \* the page a list_tasks has queried and not yet cached
    attempts        \* history: the websocket connections that reached the endpoint

dbvars == <<tasks, notifications, now, cache, inflight, transitions, superseded, last>>
regvars == <<active_connections, dk_entries, bcast, accepted, closed, ended, psend>>
mailvars == <<owners, notif_to, outbox>>
reqvars == <<settings, smtp, pending, attempts>>
vars == <<dbvars, comments, tasks_cache, regvars, mailvars, reqvars>>

NoEntry == <<>>
Idle == [kind |-> "idle", n |-> 0, sel |-> {}]

\* SQL comparison with a nullable column: NULL compares as unknown, the row
\* is not selected.
Lt(d, n) == d # NULL /\ d < n
Le(d, n) == d # NULL /\ d <= n

Min(a, b) == IF a < b THEN a ELSE b

\* ------------------------------------------------- celery_worker.py: sweep
\* select(Task).where(due_date < now, status notin [COMPLETED, OVERDUE],
\*                    is_deleted == False)
\* mutant: only TODO rows are selected
SweepFilter_TodoOnly(task, n) ==
    /\ Lt(task.due_date, n)
    /\ task.status = TODO
    /\ task.is_deleted = FALSE

\* mutant: rows already OVERDUE are selected again
SweepFilter_OverdueAgain(task, n) ==
    /\ Lt(task.due_date, n)
    /\ task.status \notin {COMPLETED}
    /\ task.is_deleted = FALSE

\* mutant: soft-deleted rows are selected too
SweepFilter_DeletedToo(task, n) ==
    /\ Lt(task.due_date, n)
    /\ task.status \notin {COMPLETED, OVERDUE}

SweepFilter(task, n) ==
    /\ Lt(task.due_date, n)
    /\ task.status \notin {COMPLETED, OVERDUE}
    /\ task.is_deleted = FALSE

SweepSelect(ts, n) == {t \in DOMAIN ts : SweepFilter(ts[t], n)}

\* for task in overdue_tasks: task.status = OVERDUE, written at the flush as
\* UPDATE tasks SET status = 'OVERDUE' WHERE id = :id
MarkOverdue(ts, S) ==
    [t \in DOMAIN ts |-> IF t \in S THEN [ts[t] EXCEPT !.status = OVERDUE] ELSE ts[t]]

SweepTasks(ts, n) == MarkOverdue(ts, SweepSelect(ts, n))

\* mutant: every row of the loop gets its notification
SweepNotified_Always(ts, n) == SweepSelect(ts, n)

\* if task.notify_overdue: session.add(Notification(...))
SweepNotified(ts, n) == {t \in SweepSelect(ts, n) : ts[t].notify_overdue}

\* ------------------------------------------------- main.py: lifespan
\* mutant: the status is not looked at
StartupOverdueFilter_AnyStatus(task, n) ==
    /\ Lt(task.due_date, n)
    /\ task.is_deleted = FALSE

StartupOverdueFilter(task, n) ==
    /\ Lt(task.due_date, n)
    /\ task.status \notin {COMPLETED, OVERDUE}
    /\ task.is_deleted = FALSE

StartupSelect(ts, n) == {t \in DOMAIN ts : StartupOverdueFilter(ts[t], n)}

StartupNotified(ts, n) == {t \in StartupSelect(ts, n) : ts[t].notify_overdue}

\* mutant: every row that is not COMPLETED is started
StartupStartFilter_AnyOpen(task, n) ==
    /\ Le(task.start_date, n)
    /\ task.status # COMPLETED
    /\ task.is_deleted = FALSE

\* update(Task).where(start_date <= now, status == TODO, is_deleted == False)
StartupStartFilter(task, n) ==
    /\ Le(task.start_date, n)
    /\ task.status = TODO
    /\ task.is_deleted = FALSE

StartupStarted(ts, n) ==
    [t \in DOMAIN ts |->
        IF StartupStartFilter(ts[t], n) THEN [ts[t] EXCEPT !.status = IN_PROGRESS]
        ELSE ts[t]]

\* Step 1 (ORM writes, flushed by the session's autoflush before the bulk
\* UPDATE runs), then step 2 (the bulk UPDATE), then the commit.
StartupTasks(ts, n) == StartupStarted(MarkOverdue(ts, StartupSelect(ts, n)), n)

\* ------------------------------------------------- analytics.py: get_overview
\* mutant: COMPLETED rows are selected too
LazyOverdueFilter_CompletedToo(task, n) ==
    /\ Lt(task.due_date, n)
    /\ task.status \notin {OVERDUE}
    /\ task.is_deleted = FALSE

LazyOverdueFilter(task, n) ==
    /\ Lt(task.due_date, n)
    /\ task.status \notin {COMPLETED, OVERDUE}
    /\ task.is_deleted = FALSE

LazyStartFilter(task, n) ==
    /\ Le(task.start_date, n)
    /\ task.status = TODO
    /\ task.is_deleted = FALSE

LazyMarked(ts, n) ==
    [t \in DOMAIN ts |->
        IF LazyOverdueFilter(ts[t], n) THEN [ts[t] EXCEPT !.status = OVERDUE] ELSE ts[t]]

LazyStarted(ts, n) ==
    [t \in DOMAIN ts |->
        IF LazyStartFilter(ts[t], n) THEN [ts[t] EXCEPT !.status = IN_PROGRESS]
        ELSE ts[t]]

\* mutant: both rules look at the row as it was, the start rule has the last word
LazyTasks_StartWins(ts, n) ==
    [t \in DOMAIN ts |->
        IF LazyStartFilter(ts[t], n) THEN [ts[t] EXCEPT !.status = IN_PROGRESS]
        ELSE LazyMarked(ts, n)[t]]

\* the first UPDATE, then the second on the rows as the first left them
LazyTasks(ts, n) == LazyStarted(LazyMarked(ts, n), n)

\* get_overview adds no Notification for the rows it marks
LazyNotified(ts, n) == {}

\* by_status of the overview: counts over the rows with is_deleted == False
CountStatus(ts, s) ==
    Cardinality({t \in DOMAIN ts : ts[t].is_deleted = FALSE /\ ts[t].status = s})

Overview(ts) ==
    [todo |-> CountStatus(ts, TODO),
     in_progress |-> CountStatus(ts, IN_PROGRESS),
     completed |-> CountStatus(ts, COMPLETED),
     overdue |-> CountStatus(ts, OVERDUE)]

\* ------------------------------------------------- routes/tasks.py
\* TaskCreate / TaskUpdate, the fields the handlers store
TaskData == [status : TaskStatus \cup {NONE},
             due_date : Dates \cup {NULL},
             notify_overdue : {NONE, "true", "false"}]

\* mutant: only a requested TODO is turned into OVERDUE
InitialStatus_TodoOnly(data, n) ==
    LET requested == IF data.status # NONE THEN data.status ELSE TODO
    IN  IF data.due_date = NULL THEN requested
        ELSE IF data.due_date < n /\ requested = TODO THEN OVERDUE
        ELSE IF data.due_date >= n /\ requested = TODO THEN IN_PROGRESS
        ELSE requested

\* create_task / bulk_create_tasks: the status the new row is stored with
InitialStatus(data, n) ==
    LET requested == IF data.status # NONE THEN data.status ELSE TODO
    IN  IF data.due_date = NULL THEN requested
        ELSE IF data.due_date < n /\ requested \notin {COMPLETED, OVERDUE} THEN OVERDUE
        ELSE IF data.due_date >= n /\ requested = TODO THEN IN_PROGRESS
        ELSE requested

\* Task(...): start_date is not passed on, notify_overdue defaults to False
NewTask(data, n) ==
    [status |-> InitialStatus(data, n),
     start_date |-> NULL,
     due_date |-> data.due_date,
     notify_overdue |-> (data.notify_overdue = "true"),
     is_deleted |-> FALSE]

\* update_task: every field that is not None overwrites the column
UpdatedTask(task, data) ==
    [task EXCEPT
        !.status = IF data.status # NONE THEN data.status ELSE @,
        !.due_date = IF data.due_date # NULL THEN data.due_date ELSE @,
        !.notify_overdue = IF data.notify_overdue # NONE
                           THEN data.notify_overdue = "true" ELSE @]

\* select(Task).where(Task.id == task_id, Task.is_deleted == False)
Found(t) == t \in DOMAIN tasks /\ tasks[t].is_deleted = FALSE

\* ------------------------------------------------- recipients
\* The columns assigned_to (nullable) and created_by of a task
Owners == [assigned_to : Users \cup {NULL}, created_by : Users]
Unassigned == [assigned_to |-> NULL, created_by |-> 1]

\* notify_user_id = task.assigned_to or task.created_by
Assigned == [assigned_to |-> 2, created_by |-> 1]

Recipient(o) == IF o.assigned_to # NULL THEN o.assigned_to ELSE o.created_by

\* The notification rows added for the tasks in S
NotifiedUsers(own, S) == {<<t, Recipient(own[t])>> : t \in S}

\* process_task_overdue_check: "if task.assigned_to:" the assignee is mailed
SweepEmails(own, S) == {<<t, own[t].assigned_to>> : t \in {x \in S : own[x].assigned_to # NULL}}

\* lifespan and notify_task_overdue: the assignee or else the creator is mailed
StartupEmails(own, S) == {<<t, Recipient(own[t])>> : t \in S}

\* ------------------------------------------------- routes/comments.py
Contents == {"first", "edited"}

\* The columns of Comment the handlers read or write.
Comment == [task_id : TaskIds, content : Contents, is_deleted : BOOLEAN]

\* select(Comment).where(id == comment_id, task_id == task_id, is_deleted == False)
FoundComment(t, c) ==
    c \in DOMAIN comments /\ comments[c].task_id = t /\ comments[c].is_deleted = FALSE

\* list_tasks: the rows with is_deleted == False, each with its comments
Listing(ts, cs) ==
    [t \in {i \in DOMAIN ts : ts[i].is_deleted = FALSE} |->
        [status |-> ts[t].status,
         comments |-> {<<c, cs[c].content, cs[c].is_deleted>> :
                         c \in {j \in DOMAIN cs : cs[j].task_id = t}}]]

\* ------------------------------------------------- websocket.py
\* A websocket is named by the user it belongs to and its number among that
\* user's connections; each is a fresh object, accepted once.
\* The JWT of a connection: its "sub" claim (NULL when it has none) and
\* whether jwt.decode accepts its signature and expiry
Tokens == [sub : Users \cup {NULL}, valid : BOOLEAN]

\* mutant: the payload is read without verifying the token
Subject_Unverified(token) == token.sub

\* user_id of websocket_endpoint, NULL when the connection is closed with 4001
Subject(token) == IF token.valid THEN token.sub ELSE NULL

\* The connections that reached websocket_endpoint
Tried == {a.ws : a \in attempts}

Registered(ac, u) == IF u \in DOMAIN ac THEN {ac[u][i] : i \in 1..Len(ac[u])} ELSE {}

\* mutant: the user's list is replaced by a list holding the new websocket
Connected_Replace(ac, u, s) ==
    IF u \in DOMAIN ac THEN [ac EXCEPT ![u] = <<s>>] ELSE ac @@ (u :> <<s>>)

\* connect, after websocket.accept(): setdefault to [] and append
Connected(ac, u, s) ==
    IF u \in DOMAIN ac THEN [ac EXCEPT ![u] = Append(@, s)] ELSE ac @@ (u :> <<s>>)

\* mutant: the emptied list is left under the user's key
Disconnected_NoPrune(ac, u, s) ==
    IF u \notin DOMAIN ac THEN ac
    ELSE [ac EXCEPT ![u] = SelectSeq(@, LAMBDA w : w # s)]

\* disconnect: the list is rebuilt without the websocket, the key is deleted
\* when the rebuilt list is empty
Disconnected(ac, u, s) ==
    IF u \notin DOMAIN ac THEN ac
    ELSE LET rest == SelectSeq(ac[u], LAMBDA w : w # s)
         IN  IF rest = <<>> THEN [v \in DOMAIN ac \ {u} |-> ac[v]]
             ELSE [ac EXCEPT ![u] = rest]

\* The dict keeps its keys in an entry table in insertion order: del leaves a
\* dummy in the key's slot, a new key takes the next slot, and the table is
\* rebuilt without its dummies when an insertion finds all DictUsable slots
\* taken (the table of a dict of at most 5 keys has 8 slots, 5 of them usable).
DUMMY == 0
DictUsable == 5

Live(es) == SelectSeq(es, LAMBDA e : e # DUMMY)

EntriesInserted(es, u) ==
    IF Len(es) >= DictUsable THEN Append(Live(es), u) ELSE Append(es, u)

EntriesDeleted(es, u) == [i \in 1..Len(es) |-> IF es[i] = u THEN DUMMY ELSE es[i]]

\* The frame of a broadcast call: the dict iterator of .items() (used, pos,
\* len), the list object being walked (list; shared while it still is the
\* list under the user's key) and the index in it.  start, live and gone are
\* history, taken when the call began: what was registered outside the
\* exclusion, what had been connected and not disconnected, and what had been
\* disconnected.
NoCall ==
    [pc |-> "idle", exclude |-> NULL, used |-> 0, pos |-> 1, len |-> 0,
     user |-> NULL, list |-> <<>>, shared |-> FALSE, idx |-> 0,
     delivered |-> {}, failed |-> {}, start |-> {}, live |-> {}, gone |-> {}]

NoSend == [user |-> NULL, delivered |-> {}, failed |-> {}]

Targets(ac, x) == {<<u, s>> \in Users \X Sessions : u # x /\ s \in Registered(ac, u)}

\* The call is over: it returned ("done") or RuntimeError left it ("raised")
Over(f, how) ==
    [f EXCEPT !.pc = how, !.user = NULL, !.list = <<>>, !.shared = FALSE, !.idx = 0]

\* Index of the first entry at or after pos that is not a dummy, 0 when none
FirstLive(es, pos) ==
    LET I == {i \in pos..Len(es) : es[i] # DUMMY}
    IN  IF I = {} THEN 0 ELSE CHOOSE i \in I : \A j \in I : i <= j

\* The loop header "for user_id, connections in self.active_connections.items()"
\* and what follows it up to the next await ws.send_json or the end of the call.
RECURSIVE NextItem(_, _, _)
NextItem(f, ac, es) ==
    IF Cardinality(DOMAIN ac) # f.used THEN Over(f, "raised")
    ELSE LET i == FirstLive(es, f.pos)
         IN  IF i = 0 THEN Over(f, "done")
             ELSE IF f.len = 0 THEN Over(f, "raised")
             ELSE LET u == es[i]
                      g == [f EXCEPT !.pos = i + 1, !.len = @ - 1, !.user = u,
                                     !.list = ac[u], !.shared = TRUE, !.idx = 1]
                  IN  IF u = f.exclude \/ ac[u] = <<>> THEN NextItem(g, ac, es)
                      ELSE [g EXCEPT !.pc = "send"]

\* mutant: the exception of a failed send is not caught
Resumed_FailureRaises(f, ok, ac, es) ==
    LET w == <<f.user, f.list[f.idx]>>
    IN  IF ~ok THEN Over([f EXCEPT !.failed = @ \cup {w}], "raised")
        ELSE LET g == [f EXCEPT !.delivered = @ \cup {w}]
             IN  IF f.idx < Len(f.list) THEN [g EXCEPT !.idx = @ + 1]
                 ELSE NextItem(g, ac, es)

\* await ws.send_json(message) returns or raises (caught, pass); the loops go on
Resumed(f, ok, ac, es) ==
    LET w == <<f.user, f.list[f.idx]>>
        g == IF ok THEN [f EXCEPT !.delivered = @ \cup {w}]
             ELSE [f EXCEPT !.failed = @ \cup {w}]
    IN  IF f.idx < Len(f.list) THEN [g EXCEPT !.idx = @ + 1]
        ELSE NextItem(g, ac, es)

\* ------------------------------------------------- history bookkeeping
\* Rows whose status is OVERDUE in after and was not (or did not exist) in before.
Entered(before, after) ==
    {t \in DOMAIN after :
        /\ after[t].status = OVERDUE
        /\ (t \in DOMAIN before => before[t].status # OVERDUE)}

\* The count saturates above MaxNotifs, the most notifications a task holds.
BumpTransitions(before, after) ==
    [t \in TaskIds |->
        IF t \in Entered(before, after)
        THEN Min(transitions[t] + 1, MaxNotifs + 1) ELSE transitions[t]]

AddNotifications(S) ==
    [t \in TaskIds |-> IF t \in S THEN notifications[t] + 1 ELSE notifications[t]]

Room(S) == \A t \in S : notifications[t] < MaxNotifs

\* An engine run leaves the mark of a user edit only on rows it did not change.
KeepSuperseded(before, after) ==
    [t \in TaskIds |->
        superseded[t] /\ t \in DOMAIN before /\ after[t].status = before[t].status]

\* The triggers whose evaluation ran to its commit.
EngineOps == {"sweep", "startup", "get_overview"}

\* request and result are filled in by the handlers whose request body and
\* response are looked at
NoBody == <<>>

Did(op, before, after, notified) ==
    [op |-> op,
     marked |-> Entered(before, after),
     notified |-> notified,
     second |-> last.op = op,
     request |-> NoBody,
     result |-> NoBody,
     raised |-> FALSE]

\* process_task_overdue_check's return value: the rows it looped over and the
\* notifications it added
SweepResult(looped, notified) ==
    <<[status |-> "processed",
       marked_overdue |-> Cardinality(looped),
       notifications_sent |-> Cardinality(notified)]>>

\* ------------------------------------------------ send_email_notification
\* Settings.SMTP_USER and SMTP_PASSWORD: "" unless the environment sets them
Settings == [SMTP_USER : {"", "user"}, SMTP_PASSWORD : {"", "secret"}]

Defaults == [SMTP_USER |-> "", SMTP_PASSWORD |-> ""]

\* mutant: only the user name is looked at
Configured_UserOnly(cfg) == cfg.SMTP_USER # ""

\* "if not settings.SMTP_USER or not settings.SMTP_PASSWORD: return skipped"
Configured(cfg) == cfg.SMTP_USER # "" /\ cfg.SMTP_PASSWORD # ""

\* the return value; smtp_ok is whether the SMTP session ran without raising
send_email_notification(cfg, smtp_ok) ==
    IF ~Configured(cfg)
    THEN [status |-> "skipped", reason |-> "SMTP credentials not configured"]
    ELSE IF smtp_ok THEN [status |-> "sent"]
    ELSE [status |-> "failed", error |-> "smtp"]

\* ---------------------------------------------------------------- Init
\* The database outlives the process: construction finds the rows that are
\* there.  No notification has been written yet and the cache is cold.
InitTables ==
    /\ \E k \in 0..MaxTasks : tasks \in [1..k -> Task]
    /\ notifications = [t \in TaskIds |-> 0]
    /\ now = 0
    /\ cache = NoEntry
    /\ inflight = [e \in Evaluators |-> Idle]
    /\ transitions = [t \in TaskIds |->
                        IF t \in DOMAIN tasks /\ tasks[t].status = OVERDUE THEN 1 ELSE 0]
    /\ superseded = [t \in TaskIds |-> FALSE]
    /\ last = [op |-> "init", marked |-> {}, notified |-> {}, second |-> FALSE,
               request |-> NoBody, result |-> NoBody, raised |-> FALSE]
    /\ comments = <<>>
    /\ tasks_cache = NoEntry
    /\ active_connections = <<>>
    /\ dk_entries = <<>>
    /\ bcast = NoCall
    /\ accepted = {}
    /\ closed = {}
    /\ ended = {}
    /\ psend = NoSend
    /\ notif_to = {}
    /\ outbox = {}
    /\ smtp = {}
    /\ pending = NoEntry
    /\ attempts = {}

\* The tasks were created by user 1 and are assigned to nobody: the start of
\* the specifications that do not look at who is notified.
Init == InitTables /\ owners = [t \in TaskIds |-> Unassigned] /\ settings = Defaults

\* ... and any assignee and creator: the start of those that do.
InitMail == InitTables /\ owners \in [TaskIds -> Owners] /\ settings = Defaults

\* ... and the tasks either unassigned or all assigned to user 2.
InitAssigned ==
    /\ InitTables
    /\ owners \in {[t \in TaskIds |-> Unassigned], [t \in TaskIds |-> Assigned]}
    /\ settings = Defaults

\* Every task still TODO.
InitTodo == Init /\ \A t \in DOMAIN tasks : tasks[t].status = TODO

\* ... and any mail configuration, the tasks unassigned.
InitSmtp ==
    InitTables /\ owners = [t \in TaskIds |-> Unassigned] /\ settings \in Settings

\* ---------------------------------------------------------------- actions
Tick ==
    /\ now < MaxNow
    /\ now' = now + 1
    /\ last' = Did("tick", tasks, tasks, {})
    /\ UNCHANGED <<tasks, notifications, cache, inflight, transitions, superseded>>
    /\ UNCHANGED <<comments, tasks_cache, regvars, mailvars, reqvars>>

\* process_task_overdue_check, run to its commit
Sweep ==
    /\ Room(SweepNotified(tasks, now))
    /\ tasks' = SweepTasks(tasks, now)
    /\ notifications' = AddNotifications(SweepNotified(tasks, now))
    /\ transitions' = BumpTransitions(tasks, tasks')
    /\ superseded' = KeepSuperseded(tasks, tasks')
    /\ last' = [Did("sweep", tasks, tasks', SweepNotified(tasks, now)) EXCEPT
                  !.result = SweepResult(SweepSelect(tasks, now), SweepNotified(tasks, now))]
    /\ UNCHANGED <<now, cache, inflight>>
    /\ UNCHANGED <<comments, tasks_cache, regvars>>
    /\ notif_to' = notif_to \cup NotifiedUsers(owners, SweepNotified(tasks, now))
    /\ outbox' = outbox \cup SweepEmails(owners, SweepNotified(tasks, now))
    /\ UNCHANGED <<owners, reqvars>>

\* process_task_overdue_check that raises before its commit (the database is
\* not reachable, a statement fails): the session is closed without a commit
SweepFails ==
    /\ last' = [Did("sweep_fails", tasks, tasks, {}) EXCEPT !.raised = TRUE]
    /\ UNCHANGED <<tasks, notifications, now, cache, inflight, transitions, superseded>>
    /\ UNCHANGED <<comments, tasks_cache, regvars, mailvars, reqvars>>

\* lifespan, the reconciliation before the yield, run to its commit
Lifespan ==
    /\ Room(StartupNotified(tasks, now))
    /\ tasks' = StartupTasks(tasks, now)
    /\ notifications' = AddNotifications(StartupNotified(tasks, now))
    /\ transitions' = BumpTransitions(tasks, tasks')
    /\ superseded' = KeepSuperseded(tasks, tasks')
    /\ last' = Did("startup", tasks, tasks', StartupNotified(tasks, now))
    /\ UNCHANGED <<now, cache, inflight>>
    /\ UNCHANGED <<comments, tasks_cache, regvars>>
    /\ notif_to' = notif_to \cup NotifiedUsers(owners, StartupNotified(tasks, now))
    /\ outbox' = outbox \cup StartupEmails(owners, StartupNotified(tasks, now))
    /\ UNCHANGED <<owners, reqvars>>

\* get_overview on a cache miss: the two bulk UPDATEs, the counts, cache_set;
\* the request's session commits when the handler returns
GetOverview ==
    /\ cache = NoEntry
    /\ tasks' = LazyTasks(tasks, now)
    /\ cache' = <<Overview(tasks')>>
    /\ transitions' = BumpTransitions(tasks, tasks')
    /\ superseded' = KeepSuperseded(tasks, tasks')
    /\ notifications' = AddNotifications(LazyNotified(tasks, now))
    /\ last' = [Did("get_overview", tasks, tasks', LazyNotified(tasks, now)) EXCEPT
                  !.result = <<Overview(tasks')>>]
    /\ UNCHANGED <<now, inflight>>
    /\ UNCHANGED <<comments, tasks_cache, regvars, mailvars, reqvars>>

\* get_overview on a cache hit: the cached overview is returned as it is
GetOverviewCached ==
    /\ cache # NoEntry
    /\ last' = [Did("get_overview_cached", tasks, tasks, {}) EXCEPT !.result = cache]
    /\ UNCHANGED <<tasks, notifications, now, cache, inflight, transitions, superseded>>
    /\ UNCHANGED <<comments, tasks_cache, regvars, mailvars, reqvars>>

\* the entry's ttl (120 s) runs out; no handler runs
CacheExpire ==
    /\ cache # NoEntry
    /\ cache' = NoEntry
    /\ UNCHANGED <<tasks, notifications, now, inflight, transitions, superseded, last>>
    /\ UNCHANGED <<comments, tasks_cache, regvars, mailvars, reqvars>>

\* TaskResponse.model_validate(task), the fields looked at
TaskResponse(ts, id) == [id |-> id, status |-> ts[id].status]

CreateTask(data) ==
    LET id == Cardinality(DOMAIN tasks) + 1
    IN  /\ id \in TaskIds
        /\ tasks' = tasks @@ (id :> NewTask(data, now))
        /\ cache' = NoEntry
        /\ transitions' = BumpTransitions(tasks, tasks')
        /\ last' = [Did("create_task", tasks, tasks, {}) EXCEPT
                      !.request = <<data>>,
                      !.result = <<TaskResponse(tasks', id)>>]
        /\ UNCHANGED <<notifications, now, inflight, superseded>>
        /\ tasks_cache' = NoEntry
        /\ UNCHANGED <<comments, regvars, mailvars, reqvars>>

\* bulk_create_tasks: one row per item of data.tasks, one now for all of them
BulkTasks(ts, datas, n) ==
    LET k == Cardinality(DOMAIN ts)
    IN  [id \in 1..(k + Len(datas)) |->
            IF id <= k THEN ts[id] ELSE NewTask(datas[id - k], n)]

BulkCreateTasks(datas) ==
    LET k == Cardinality(DOMAIN tasks)
    IN  /\ k + Len(datas) <= MaxTasks
        /\ tasks' = BulkTasks(tasks, datas, now)
        /\ cache' = NoEntry
        /\ transitions' = BumpTransitions(tasks, tasks')
        /\ last' = [Did("bulk_create_tasks", tasks, tasks, {}) EXCEPT
                      !.request = datas,
                      !.result = [i \in 1..Len(datas) |-> TaskResponse(tasks', k + i)]]
        /\ UNCHANGED <<notifications, now, inflight, superseded>>
        /\ tasks_cache' = NoEntry
        /\ UNCHANGED <<comments, regvars, mailvars, reqvars>>

UpdateTask(t, data) ==
    /\ Found(t)
    /\ tasks' = [tasks EXCEPT ![t] = UpdatedTask(tasks[t], data)]
    /\ cache' = NoEntry
    /\ transitions' = BumpTransitions(tasks, tasks')
    /\ superseded' =
         [superseded EXCEPT ![t] =
            IF data.status = NONE THEN @
            ELSE data.status # OVERDUE /\ (tasks[t].status = OVERDUE \/ @)]
    /\ last' = Did("update_task", tasks, tasks, {})
    /\ UNCHANGED <<notifications, now, inflight>>
    /\ tasks_cache' = NoEntry
    /\ UNCHANGED <<comments, regvars, mailvars, reqvars>>

DeleteTask(t) ==
    /\ Found(t)
    /\ tasks' = [tasks EXCEPT ![t].is_deleted = TRUE]
    /\ cache' = NoEntry
    /\ last' = Did("delete_task", tasks, tasks, {})
    /\ UNCHANGED <<notifications, now, inflight, transitions, superseded>>
    /\ tasks_cache' = NoEntry
    /\ UNCHANGED <<comments, regvars, mailvars, reqvars>>

\* notify_task_overdue's checks: the HTTPException raised, "" when none is
NotifyRefusal(ts, t) ==
    IF ~(t \in DOMAIN ts /\ ts[t].is_deleted = FALSE) THEN "404 Task not found"
    ELSE IF ts[t].status # OVERDUE THEN "400 Task is not overdue"
    ELSE ""

\* notify_task_overdue that raises its HTTPException: nothing is added, the
\* broadcast and the email step are not reached
NotifyTaskOverdueRefused(t) ==
    /\ NotifyRefusal(tasks, t) # ""
    /\ last' = [Did("notify_refused", tasks, tasks, {}) EXCEPT
                  !.request = <<t>>,
                  !.result = <<NotifyRefusal(tasks, t)>>,
                  !.raised = TRUE]
    /\ UNCHANGED <<tasks, notifications, now, cache, inflight, transitions, superseded>>
    /\ UNCHANGED <<comments, tasks_cache, regvars, mailvars, reqvars>>

\* mutant: the status of the task is not checked
NotifyTaskOverdue_AnyStatus(t) ==
    /\ Found(t)
    /\ Room({t})
    /\ notifications' = AddNotifications({t})
    /\ last' = Did("notify_task_overdue", tasks, tasks, {t})
    /\ UNCHANGED <<tasks, now, cache, inflight, transitions, superseded>>
    /\ UNCHANGED <<comments, tasks_cache, regvars>>
    /\ notif_to' = notif_to \cup NotifiedUsers(owners, {t})
    /\ outbox' = outbox \cup StartupEmails(owners, {t})
    /\ UNCHANGED <<owners, reqvars>>

\* notify_task_overdue: 404 for a missing or deleted task, 400 unless OVERDUE
NotifyTaskOverdue(t) ==
    /\ Found(t)
    /\ tasks[t].status = OVERDUE
    /\ Room({t})
    /\ notifications' = AddNotifications({t})
    /\ last' = Did("notify_task_overdue", tasks, tasks, {t})
    /\ UNCHANGED <<tasks, now, cache, inflight, transitions, superseded>>
    /\ UNCHANGED <<comments, tasks_cache, regvars>>
    /\ notif_to' = notif_to \cup NotifiedUsers(owners, {t})
    /\ outbox' = outbox \cup StartupEmails(owners, {t})
    /\ UNCHANGED <<owners, reqvars>>

\* ------------------------------------------------- listings and comments
\* list_tasks on a cache miss: the query, cache_set with ttl=60
ListTasks ==
    /\ tasks_cache = NoEntry
    /\ tasks_cache' = <<Listing(tasks, comments)>>
    /\ last' = [Did("list_tasks", tasks, tasks, {}) EXCEPT !.result = tasks_cache']
    /\ UNCHANGED <<tasks, notifications, now, cache, inflight, transitions, superseded,
                   comments, regvars, mailvars, reqvars>>

\* list_tasks on a cache miss, up to the end of its queries: the page is built
ListTasksRead ==
    /\ tasks_cache = NoEntry
    /\ pending = NoEntry
    /\ pending' = <<Listing(tasks, comments)>>
    /\ last' = Did("list_tasks_read", tasks, tasks, {})
    /\ UNCHANGED <<tasks, notifications, now, cache, inflight, transitions, superseded,
                   comments, tasks_cache, regvars, mailvars, settings, smtp, attempts>>

\* ... and its cache_set(cache_key, ..., ttl=60) and return
ListTasksWrite ==
    /\ pending # NoEntry
    /\ tasks_cache' = pending
    /\ pending' = NoEntry
    /\ last' = [Did("list_tasks", tasks, tasks, {}) EXCEPT !.result = pending]
    /\ UNCHANGED <<tasks, notifications, now, cache, inflight, transitions, superseded,
                   comments, regvars, mailvars, settings, smtp, attempts>>

\* list_tasks on a cache hit
ListTasksCached ==
    /\ tasks_cache # NoEntry
    /\ last' = [Did("list_tasks_cached", tasks, tasks, {}) EXCEPT !.result = tasks_cache]
    /\ UNCHANGED <<tasks, notifications, now, cache, inflight, transitions, superseded,
                   comments, tasks_cache, regvars, mailvars, reqvars>>

\* the entry's ttl (60 s) runs out; no handler runs
TasksCacheExpire ==
    /\ tasks_cache # NoEntry
    /\ tasks_cache' = NoEntry
    /\ UNCHANGED <<dbvars, comments, regvars, mailvars, reqvars>>

\* add_comment: 404 for a missing or deleted task; the row, the broadcast
AddComment(t, content) ==
    /\ Found(t)
    /\ Len(comments) < MaxComments
    /\ comments' = Append(comments, [task_id |-> t, content |-> content, is_deleted |-> FALSE])
    /\ last' = [Did("add_comment", tasks, tasks, {}) EXCEPT !.request = <<t, content>>]
    /\ UNCHANGED <<tasks, notifications, now, cache, inflight, transitions, superseded,
                   tasks_cache, regvars, mailvars, reqvars>>

\* update_comment: 404 for a missing or deleted comment; content is overwritten
UpdateComment(t, c, content) ==
    /\ FoundComment(t, c)
    /\ comments' = [comments EXCEPT ![c].content = content]
    /\ last' = [Did("update_comment", tasks, tasks, {}) EXCEPT !.request = <<t, c, content>>]
    /\ UNCHANGED <<tasks, notifications, now, cache, inflight, transitions, superseded,
                   tasks_cache, regvars, mailvars, reqvars>>

\* delete_comment: 404 for a missing or deleted comment; soft delete
DeleteComment(t, c) ==
    /\ FoundComment(t, c)
    /\ comments' = [comments EXCEPT ![c].is_deleted = TRUE]
    /\ last' = [Did("delete_comment", tasks, tasks, {}) EXCEPT !.request = <<t, c>>]
    /\ UNCHANGED <<tasks, notifications, now, cache, inflight, transitions, superseded,
                   tasks_cache, regvars, mailvars, reqvars>>

\* ------------------------------------------------- handlers that raise
\* get_overview on a cache miss when one of its two UPDATEs raises: nothing
\* catches the exception, the handler ends with it.  stmt is the statement
\* that raises; kept says whether the session's earlier write is committed
\* all the same by the session's owner.
GetOverviewUpdateFails(stmt, kept) ==
    /\ cache = NoEntry
    /\ tasks' = IF stmt = 2 /\ kept THEN LazyMarked(tasks, now) ELSE tasks
    /\ transitions' = BumpTransitions(tasks, tasks')
    /\ superseded' = KeepSuperseded(tasks, tasks')
    /\ last' = [Did("get_overview_update_fails", tasks, tasks', {}) EXCEPT
                  !.request = <<stmt>>, !.raised = TRUE]
    /\ UNCHANGED <<notifications, now, cache, inflight, comments, tasks_cache, regvars, mailvars, reqvars>>

\* create_task when cache_delete_pattern raises, in its first call
\* (which = 1, "tasks:*") or its second (which = 2, "analytics:*"): nothing
\* catches the exception, the handler ends with it before the broadcast.
\* kept says whether the flushed row is committed all the same.
CreateTaskPurgeFails(data, which, kept) ==
    LET id == Cardinality(DOMAIN tasks) + 1
    IN  /\ id \in TaskIds
        /\ tasks' = IF kept THEN tasks @@ (id :> NewTask(data, now)) ELSE tasks
        /\ tasks_cache' = IF which = 2 THEN NoEntry ELSE tasks_cache
        /\ transitions' = BumpTransitions(tasks, tasks')
        /\ last' = [Did("create_task_purge_fails", tasks, tasks, {}) EXCEPT
                      !.request = <<id, which>>, !.raised = TRUE]
        /\ UNCHANGED <<notifications, now, cache, inflight, superseded, comments, regvars, mailvars, reqvars>>

\* delete_task when cache_delete_pattern raises
DeleteTaskPurgeFails(t, which, kept) ==
    /\ Found(t)
    /\ tasks' = IF kept THEN [tasks EXCEPT ![t].is_deleted = TRUE] ELSE tasks
    /\ tasks_cache' = IF which = 2 THEN NoEntry ELSE tasks_cache
    /\ last' = [Did("delete_task_purge_fails", tasks, tasks, {}) EXCEPT
                  !.request = <<t, which>>, !.raised = TRUE]
    /\ UNCHANGED <<notifications, now, cache, inflight, transitions, superseded,
                   comments, regvars, mailvars, reqvars>>

\* ------------------------------------------------- websocket connections
\* websocket_endpoint up to manager.connect: accept, then register
Register(u, s) ==
    /\ s = Cardinality({w \in accepted \cup Tried : w[1] = u}) + 1
    /\ accepted' = accepted \cup {<<u, s>>}
    /\ active_connections' = Connected(active_connections, u, s)
    /\ dk_entries' = IF u \in DOMAIN active_connections THEN dk_entries
                     ELSE EntriesInserted(dk_entries, u)
    /\ bcast' = IF bcast.pc = "send" /\ bcast.user = u /\ bcast.shared
                THEN [bcast EXCEPT !.list = Append(@, s)] ELSE bcast
    /\ UNCHANGED <<dbvars, comments, tasks_cache, closed, ended, psend, mailvars>>

Connect(u, s) == Register(u, s) /\ UNCHANGED reqvars

\* websocket_endpoint up to its receive loop: the token is decoded, a token
\* that does not verify or has no "sub" gets close(code=4001); manager.connect
\* awaits accept, which may raise, before it touches the registry
WebsocketEndpoint(token, s, accept_ok) ==
    /\ s = Cardinality({w \in accepted \cup Tried : w[1] = token.sub}) + 1
    /\ \/ Cardinality({a \in attempts : ~a.registered}) < MaxRefused
       \/ (Subject(token) # NULL /\ accept_ok)
    /\ attempts' = attempts \cup
          {[ws |-> <<token.sub, s>>, valid |-> token.valid, accept_ok |-> accept_ok,
            registered |-> Subject(token) # NULL /\ accept_ok]}
    /\ IF Subject(token) # NULL /\ accept_ok
       THEN Register(Subject(token), s)
       ELSE UNCHANGED <<dbvars, comments, tasks_cache, regvars, mailvars>>
    /\ UNCHANGED <<settings, smtp, pending>>

\* manager.disconnect(websocket, user_id)
Deregister(u, s) ==
    /\ active_connections' = Disconnected(active_connections, u, s)
    /\ dk_entries' = IF u \in DOMAIN active_connections /\ u \notin DOMAIN active_connections'
                     THEN EntriesDeleted(dk_entries, u) ELSE dk_entries
    /\ bcast' = IF bcast.user = u /\ u \in DOMAIN active_connections
                THEN [bcast EXCEPT !.shared = FALSE] ELSE bcast
    /\ closed' = closed \cup ({<<u, s>>} \cap accepted)
    /\ UNCHANGED <<dbvars, comments, tasks_cache, accepted, psend, mailvars, reqvars>>

Disconnect(u, s) == Deregister(u, s) /\ UNCHANGED ended

\* websocket_endpoint: receive_text raises WebSocketDisconnect, the handler
\* calls manager.disconnect and ends
ReceiveDisconnect(u, s) ==
    /\ <<u, s>> \in accepted \ ended
    /\ ended' = ended \cup {<<u, s>>}
    /\ Deregister(u, s)

\* websocket_endpoint: receive_text raises another exception (a binary frame
\* has no "text", the server shuts down): only WebSocketDisconnect is caught,
\* the handler ends with the exception and the connection is closed
ReceiveError(u, s) ==
    /\ <<u, s>> \in accepted \ ended
    /\ ended' = ended \cup {<<u, s>>}
    /\ UNCHANGED <<dbvars, comments, tasks_cache, active_connections, dk_entries, bcast,
                   accepted, closed, psend, mailvars, reqvars>>

\* manager.broadcast(message, exclude_user) up to its first await
BroadcastBegin(x) ==
    /\ bcast.pc # "send"
    /\ bcast' = NextItem([NoCall EXCEPT !.exclude = x,
                                        !.used = Cardinality(DOMAIN active_connections),
                                        !.len = Cardinality(DOMAIN active_connections),
                                        !.start = Targets(active_connections, x),
                                        !.live = accepted \ closed,
                                        !.gone = closed],
                         active_connections, dk_entries)
    /\ UNCHANGED <<dbvars, comments, tasks_cache, active_connections, dk_entries,
                   accepted, closed, ended, psend, mailvars, reqvars>>

\* mutant: a websocket whose send fails is taken out of the registry
BroadcastSend_Reaps(ok) ==
    /\ bcast.pc = "send"
    /\ bcast' = Resumed(bcast, ok, active_connections, dk_entries)
    /\ active_connections' =
          IF ok THEN active_connections
          ELSE Disconnected(active_connections, bcast.user, bcast.list[bcast.idx])
    /\ dk_entries' = IF bcast.user \in DOMAIN active_connections'
                     THEN dk_entries ELSE EntriesDeleted(dk_entries, bcast.user)
    /\ UNCHANGED <<dbvars, comments, tasks_cache, accepted, closed, ended, psend, mailvars, reqvars>>

\* the pending send ends, the call runs on to its next await or to its end
BroadcastSend(ok) ==
    /\ bcast.pc = "send"
    /\ bcast' = Resumed(bcast, ok, active_connections, dk_entries)
    /\ UNCHANGED <<dbvars, comments, tasks_cache, active_connections, dk_entries,
                   accepted, closed, ended, psend, mailvars, reqvars>>

\* manager.send_personal(user_id, message), run to its end: every websocket
\* of the user is sent to, F are those whose send raises (caught, pass)
SendPersonal(u, F) ==
    /\ F \subseteq Registered(active_connections, u)
    /\ psend' = [user |-> u,
                 delivered |-> Registered(active_connections, u) \ F,
                 failed |-> F]
    /\ UNCHANGED <<dbvars, comments, tasks_cache, active_connections, dk_entries, bcast,
                   accepted, closed, ended, mailvars, reqvars>>

\* send_email_notification run for an email handed to it (by the worker that
\* takes it from the broker, or in the caller)
SendEmailNotification(m, smtp_ok) ==
    /\ m \in outbox
    /\ smtp' = IF Configured(settings) THEN smtp \cup {m} ELSE smtp
    /\ last' = [Did("send_email_notification", tasks, tasks, {}) EXCEPT
                  !.request = <<m>>,
                  !.result = <<send_email_notification(settings, smtp_ok)>>]
    /\ UNCHANGED <<tasks, notifications, now, cache, inflight, transitions, superseded,
                   comments, tasks_cache, regvars, mailvars, settings, pending, attempts>>

\* ------------------------------------------------- email steps that fail
\* process_task_overdue_check when send_email_notification.delay raises for
\* task t (the broker is not reachable): nothing catches it, the session is
\* left without a commit.  E are the emails enqueued before it in the loop.
SweepEnqueueFails(t, E) ==
    /\ t \in SweepNotified(tasks, now)
    /\ owners[t].assigned_to # NULL
    /\ E \subseteq SweepEmails(owners, SweepNotified(tasks, now) \ {t})
    /\ outbox' = outbox \cup E
    /\ last' = [Did("sweep_enqueue_fails", tasks, tasks, {}) EXCEPT
                  !.request = <<{t}>>, !.raised = TRUE]
    /\ UNCHANGED <<tasks, notifications, now, cache, inflight, transitions, superseded,
                   comments, tasks_cache, regvars, owners, notif_to, reqvars>>

\* process_task_overdue_check when session.commit() raises (the connection
\* to the database is lost): every .delay of the loop has already put its
\* email on the broker, the statuses and the notifications are not stored
SweepCommitFails ==
    /\ SweepSelect(tasks, now) # {}
    /\ outbox' = outbox \cup SweepEmails(owners, SweepNotified(tasks, now))
    /\ last' = [Did("sweep_commit_fails", tasks, tasks, {}) EXCEPT !.raised = TRUE]
    /\ UNCHANGED <<tasks, notifications, now, cache, inflight, transitions, superseded,
                   comments, tasks_cache, regvars, owners, notif_to, reqvars>>

\* lifespan when the email step raises for the tasks in F: "except Exception:
\* pass" inside the loop, the loop goes on and the session is committed
LifespanEmailFails(F) ==
    /\ F # {}
    /\ F \subseteq StartupNotified(tasks, now)
    /\ Room(StartupNotified(tasks, now))
    /\ tasks' = StartupTasks(tasks, now)
    /\ notifications' = AddNotifications(StartupNotified(tasks, now))
    /\ transitions' = BumpTransitions(tasks, tasks')
    /\ superseded' = KeepSuperseded(tasks, tasks')
    /\ notif_to' = notif_to \cup NotifiedUsers(owners, StartupNotified(tasks, now))
    /\ outbox' = outbox \cup StartupEmails(owners, StartupNotified(tasks, now) \ F)
    /\ last' = [Did("startup_email_fails", tasks, tasks', StartupNotified(tasks, now)) EXCEPT
                  !.request = <<F>>]
    /\ UNCHANGED <<now, cache, inflight, comments, tasks_cache, regvars, owners, reqvars>>

\* mutant: the overdue loop of a failed reconciliation is stored all the same
LifespanFails_Partial(E) ==
    /\ E \subseteq StartupEmails(owners, StartupNotified(tasks, now))
    /\ Room(StartupNotified(tasks, now))
    /\ tasks' = MarkOverdue(tasks, StartupSelect(tasks, now))
    /\ notifications' = AddNotifications(StartupNotified(tasks, now))
    /\ transitions' = BumpTransitions(tasks, tasks')
    /\ superseded' = KeepSuperseded(tasks, tasks')
    /\ notif_to' = notif_to \cup NotifiedUsers(owners, StartupNotified(tasks, now))
    /\ outbox' = outbox \cup E
    /\ last' = [Did("startup_fails", tasks, tasks', {}) EXCEPT !.request = <<E>>]
    /\ UNCHANGED <<now, cache, inflight, comments, tasks_cache, regvars, owners, reqvars>>

\* lifespan when a statement of the reconciliation or its commit raises: the
\* session is closed without a commit, "except Exception: pass  # Don't block
\* startup", then the yield.  E are the emails handed over before that.
LifespanFails(E) ==
    /\ E \subseteq StartupEmails(owners, StartupNotified(tasks, now))
    /\ outbox' = outbox \cup E
    /\ last' = [Did("startup_fails", tasks, tasks, {}) EXCEPT !.request = <<E>>]
    /\ UNCHANGED <<tasks, notifications, now, cache, inflight, transitions, superseded,
                   comments, tasks_cache, regvars, owners, notif_to, reqvars>>

\* notify_task_overdue when send_email_notification raises: "except
\* Exception: pass", the notification is returned
NotifyEmailFails(t) ==
    /\ Found(t)
    /\ tasks[t].status = OVERDUE
    /\ Room({t})
    /\ notifications' = AddNotifications({t})
    /\ notif_to' = notif_to \cup NotifiedUsers(owners, {t})
    /\ last' = [Did("notify_email_fails", tasks, tasks, {t}) EXCEPT !.request = <<{t}>>]
    /\ UNCHANGED <<tasks, now, cache, inflight, transitions, superseded,
                   comments, tasks_cache, regvars, owners, outbox, reqvars>>

\* ------------------------------------------------- concurrent engine runs
\* A sweep or a startup reconciliation is one database transaction: the SELECT
\* loads the rows into the session, the commit flushes the session's writes.
\* Other transactions commit in between.
Loaded(ts, S) == {<<t, ts[t].notify_overdue>> : t \in S}
Ids(e) == {x[1] : x \in inflight[e].sel}
Notifying(e) == {x[1] : x \in {y \in inflight[e].sel : y[2]}}

\* process_task_overdue_check up to the end of its SELECT
SweepBegin(e) ==
    /\ inflight[e].kind = "idle"
    /\ inflight' = [inflight EXCEPT ![e] =
                      [kind |-> "sweep", n |-> now, sel |-> Loaded(tasks, SweepSelect(tasks, now))]]
    /\ last' = Did("sweep_select", tasks, tasks, {})
    /\ UNCHANGED <<tasks, notifications, now, cache, transitions, superseded>>
    /\ UNCHANGED <<comments, tasks_cache, regvars, mailvars, reqvars>>

\* the loop over the loaded rows and session.commit()
SweepCommit(e) ==
    /\ inflight[e].kind = "sweep"
    /\ Room(Notifying(e))
    /\ tasks' = MarkOverdue(tasks, Ids(e))
    /\ notifications' = AddNotifications(Notifying(e))
    /\ inflight' = [inflight EXCEPT ![e] = Idle]
    /\ transitions' = BumpTransitions(tasks, tasks')
    /\ superseded' = KeepSuperseded(tasks, tasks')
    /\ last' = [Did("sweep_commit", tasks, tasks', Notifying(e)) EXCEPT
                  !.result = SweepResult(Ids(e), Notifying(e))]
    /\ UNCHANGED <<now, cache>>
    /\ UNCHANGED <<comments, tasks_cache, regvars>>
    /\ notif_to' = notif_to \cup NotifiedUsers(owners, Notifying(e))
    /\ outbox' = outbox \cup SweepEmails(owners, Notifying(e))
    /\ UNCHANGED <<owners, reqvars>>

\* lifespan up to the end of its SELECT
LifespanBegin(e) ==
    /\ inflight[e].kind = "idle"
    /\ inflight' = [inflight EXCEPT ![e] =
                      [kind |-> "startup", n |-> now,
                       sel |-> Loaded(tasks, StartupSelect(tasks, now))]]
    /\ last' = Did("startup_select", tasks, tasks, {})
    /\ UNCHANGED <<tasks, notifications, now, cache, transitions, superseded>>
    /\ UNCHANGED <<comments, tasks_cache, regvars, mailvars, reqvars>>

\* the loop over the loaded rows, the bulk UPDATE and session.commit()
LifespanCommit(e) ==
    /\ inflight[e].kind = "startup"
    /\ Room(Notifying(e))
    /\ tasks' = StartupStarted(MarkOverdue(tasks, Ids(e)), inflight[e].n)
    /\ notifications' = AddNotifications(Notifying(e))
    /\ inflight' = [inflight EXCEPT ![e] = Idle]
    /\ transitions' = BumpTransitions(tasks, tasks')
    /\ superseded' = KeepSuperseded(tasks, tasks')
    /\ last' = Did("startup_commit", tasks, tasks', Notifying(e))
    /\ UNCHANGED <<now, cache>>
    /\ UNCHANGED <<comments, tasks_cache, regvars>>
    /\ notif_to' = notif_to \cup NotifiedUsers(owners, Notifying(e))
    /\ outbox' = outbox \cup StartupEmails(owners, Notifying(e))
    /\ UNCHANGED <<owners, reqvars>>

\* ------------------------------------------------- specifications
\* The engine alone, over every table the database can hold.
NextEngine ==
    \/ Tick
    \/ Sweep
    \/ Lifespan
    \/ GetOverview
    \/ GetOverviewCached
    \/ CacheExpire

SpecEngine == Init /\ [][NextEngine]_vars

\* The engine and the task handlers.
Next ==
    \/ NextEngine
    \/ \E data \in TaskData : CreateTask(data)
    \/ \E t \in TaskIds, data \in TaskData : UpdateTask(t, data)
    \/ \E t \in TaskIds : DeleteTask(t)
    \/ \E t \in TaskIds : NotifyTaskOverdue(t)

Spec == Init /\ [][Next]_vars

\* The engine and a user who deletes tasks.
NextDelete ==
    \/ NextEngine
    \/ \E t \in TaskIds : DeleteTask(t)

SpecDelete == Init /\ [][NextDelete]_vars

\* The bodies of a bulk request that the table has room for: up to MaxBulk items
BulkData ==
    UNION {[1..m -> TaskData] :
             m \in 0..Min(MaxBulk, MaxTasks - Cardinality(DOMAIN tasks))}

\* A user who creates tasks.
NextCreate ==
    \/ Tick
    \/ \E data \in TaskData : CreateTask(data)
    \/ \E datas \in BulkData : BulkCreateTasks(datas)

SpecCreate == Init /\ [][NextCreate]_vars

\* The engine and a user who creates tasks.
NextStart ==
    \/ NextEngine
    \/ \E data \in TaskData : CreateTask(data)
    \/ \E datas \in BulkData : BulkCreateTasks(datas)

SpecStart == Init /\ [][NextStart]_vars

\* update_task with a body that sets the status to completed and nothing else
CompleteTask(t) ==
    UpdateTask(t, [status |-> COMPLETED, due_date |-> NULL, notify_overdue |-> NONE])

\* The engine and a user who completes tasks.
NextComplete ==
    \/ NextEngine
    \/ \E t \in TaskIds : CompleteTask(t)

SpecComplete == Init /\ [][NextComplete]_vars

\* Sweeps and startup reconciliations as transactions that overlap each other
\* and the lazy evaluation.
NextRace ==
    \/ Tick
    \/ \E e \in Evaluators : SweepBegin(e)
    \/ \E e \in Evaluators : SweepCommit(e)
    \/ \E e \in Evaluators : LifespanBegin(e)
    \/ \E e \in Evaluators : LifespanCommit(e)
    \/ GetOverview
    \/ GetOverviewCached
    \/ CacheExpire

SpecRace == Init /\ [][NextRace]_vars

\* No request at all: the clock and the periodic sweep, which may fail but is
\* fired again and again and gets through in the end.
NextSweeps ==
    \/ Tick
    \/ Sweep
    \/ SweepFails

SpecSweeps == Init /\ [][NextSweeps]_vars /\ WF_vars(Sweep)

\* The engine and the reads that fill and serve the two cache entries.
NextServe ==
    \/ NextEngine
    \/ ListTasks
    \/ ListTasksCached
    \/ TasksCacheExpire

SpecServe == Init /\ [][NextServe]_vars

\* The database the registry specifications start from: no task rows.
InitRegistry == Init /\ tasks = <<>>

\* Connections and broadcasts, no handler running while a broadcast is
\* suspended at a send.
NextSessions ==
    \/ bcast.pc # "send" /\ \E u \in Users, s \in Sessions : Connect(u, s)
    \/ bcast.pc # "send" /\ \E u \in Users, s \in Sessions : Disconnect(u, s)
    \/ \E x \in Users \cup {NULL} : BroadcastBegin(x)
    \/ \E ok \in BOOLEAN : BroadcastSend(ok)

SpecSessions == InitRegistry /\ [][NextSessions]_vars

\* Connections and broadcasts on the event loop: connect and disconnect run
\* while a broadcast is suspended at a send.
NextRegistry ==
    \/ \E u \in Users, s \in Sessions : Connect(u, s)
    \/ \E u \in Users, s \in Sessions : Disconnect(u, s)
    \/ \E x \in Users \cup {NULL} : BroadcastBegin(x)
    \/ \E ok \in BOOLEAN : BroadcastSend(ok)

SpecRegistry == InitRegistry /\ [][NextRegistry]_vars

\* Reads that fill the two cache entries, and the task and comment handlers.
NextCache ==
    \/ ListTasks
    \/ ListTasksCached
    \/ TasksCacheExpire
    \/ GetOverview
    \/ GetOverviewCached
    \/ CacheExpire
    \/ \E data \in TaskData : CreateTask(data)
    \/ \E datas \in BulkData : BulkCreateTasks(datas)
    \/ \E t \in TaskIds, data \in TaskData : UpdateTask(t, data)
    \/ \E t \in TaskIds : DeleteTask(t)
    \/ \E t \in TaskIds, content \in Contents : AddComment(t, content)
    \/ \E t \in TaskIds, c \in 1..MaxComments, content \in Contents : UpdateComment(t, c, content)
    \/ \E t \in TaskIds, c \in 1..MaxComments : DeleteComment(t, c)

SpecCache == Init /\ [][NextCache]_vars

\* Handlers whose database statement or cache purge raises.
NextFaults ==
    \/ Tick
    \/ ListTasks
    \/ GetOverview
    \/ GetOverviewCached
    \/ CacheExpire
    \/ \E stmt \in {1, 2}, kept \in BOOLEAN : GetOverviewUpdateFails(stmt, kept)
    \/ \E data \in TaskData : CreateTask(data)
    \/ \E data \in TaskData, which \in {1, 2}, kept \in BOOLEAN :
          CreateTaskPurgeFails(data, which, kept)
    \/ \E t \in TaskIds : DeleteTask(t)
    \/ \E t \in TaskIds, which \in {1, 2}, kept \in BOOLEAN :
          DeleteTaskPurgeFails(t, which, kept)

SpecFaults == Init /\ [][NextFaults]_vars

\* The engine and the notify-overdue endpoint over tasks with any assignee
\* and creator.
NextMail ==
    \/ NextEngine
    \/ \E t \in TaskIds : NotifyTaskOverdue(t)

SpecMail == InitMail /\ [][NextMail]_vars

\* ... and their runs in which the email step fails.
NextMailFaults ==
    \/ Tick
    \/ Sweep
    \/ Lifespan
    \/ \E t \in TaskIds : NotifyTaskOverdue(t)
    \/ \E t \in TaskIds, E \in SUBSET (TaskIds \X Users) : SweepEnqueueFails(t, E)
    \/ \E F \in SUBSET TaskIds : LifespanEmailFails(F)
    \/ \E t \in TaskIds : NotifyEmailFails(t)

SpecMailFaults == InitMail /\ [][NextMailFaults]_vars

\* The startup reconciliation and the emails it hands over, under any mail
\* configuration.
NextSmtp ==
    \/ Tick
    \/ Lifespan
    \/ \E m \in TaskIds \X Users, ok \in BOOLEAN : SendEmailNotification(m, ok)

SpecSmtp == InitSmtp /\ [][NextSmtp]_vars

\* Server starts whose reconciliation gets through or fails, and the requests
\* served after them.
NextStartup ==
    \/ Tick
    \/ Lifespan
    \/ \E E \in SUBSET (TaskIds \X Users) : LifespanFails(E)
    \/ GetOverview
    \/ GetOverviewCached
    \/ CacheExpire

SpecStartup == Init /\ [][NextStartup]_vars

\* Tasks left TODO while nothing evaluated them, then the evaluations of one
\* instant.
NextBoth ==
    \/ last.op \in {"init", "tick"} /\ Tick
    \/ Sweep
    \/ Lifespan
    \/ GetOverview
    \/ GetOverviewCached
    \/ CacheExpire

SpecBoth == InitTodo /\ [][NextBoth]_vars

\* The two triggers that notify, over tasks with and without an assignee.
NextNotify ==
    \/ Tick
    \/ Sweep
    \/ Lifespan

SpecNotify == InitAssigned /\ [][NextNotify]_vars

\* A list_tasks request in two steps, and the mutations that run between them.
NextListing ==
    \/ ListTasksRead
    \/ ListTasksWrite
    \/ ListTasksCached
    \/ TasksCacheExpire
    \/ \E t \in TaskIds, data \in TaskData : UpdateTask(t, data)
    \/ \E t \in TaskIds : DeleteTask(t)

SpecListing == Init /\ [][NextListing]_vars

\* Notify-overdue requests for tasks that the sweep marks and users delete.
NextNotifyRequest ==
    \/ Tick
    \/ Sweep
    \/ \E t \in TaskIds : DeleteTask(t)
    \/ \E t \in TaskIds : NotifyTaskOverdue(t)
    \/ \E t \in TaskIds : NotifyTaskOverdueRefused(t)

SpecNotifyRequest == Init /\ [][NextNotifyRequest]_vars

\* Connections that come with any token, and broadcasts, one call at a time;
\* accept is reached, and can fail, only with a token that gave a user.
NextGate ==
    \/ bcast.pc # "send" /\ \E token \in Tokens, s \in Sessions, ok \in BOOLEAN :
                                (Subject(token) = NULL => ok) /\ WebsocketEndpoint(token, s, ok)
    \/ BroadcastBegin(NULL)
    \/ \E ok \in BOOLEAN : BroadcastSend(ok)

SpecGate == InitRegistry /\ [][NextGate]_vars

\* The periodic sweep and its failed runs, over tasks with any assignee.
NextRetry ==
    \/ Tick
    \/ Sweep
    \/ SweepFails
    \/ SweepCommitFails
    \/ \E t \in TaskIds, E \in SUBSET (TaskIds \X Users) : SweepEnqueueFails(t, E)

SpecRetry == InitMail /\ [][NextRetry]_vars

\* The sweep and the lazy evaluation while websockets are connected (the
\* startup reconciliation ends before the first websocket is accepted).
NextPush ==
    \/ Tick
    \/ Sweep
    \/ GetOverview
    \/ GetOverviewCached
    \/ CacheExpire
    \/ \E u \in Users, s \in Sessions : Connect(u, s)
    \/ \E u \in Users, s \in Sessions : Disconnect(u, s)

SpecPush == Init /\ [][NextPush]_vars

\* websocket_endpoint from connect to the end of the connection, and broadcasts.
NextEndpoint ==
    \/ \E u \in Users, s \in Sessions : Connect(u, s)
    \/ \E u \in Users, s \in Sessions : ReceiveDisconnect(u, s)
    \/ \E u \in Users, s \in Sessions : ReceiveError(u, s)
    \/ \E x \in Users \cup {NULL} : BroadcastBegin(x)
    \/ \E ok \in BOOLEAN : BroadcastSend(ok)

SpecEndpoint == InitRegistry /\ [][NextEndpoint]_vars

\* Connections and broadcasts to every user, one call at a time, up to the
\* first personal send; from there on personal sends only.
NextSend ==
    \/ psend = NoSend /\ bcast.pc # "send" /\ \E u \in Users, s \in Sessions : Connect(u, s)
    \/ psend = NoSend /\ bcast.pc # "send" /\ \E u \in Users, s \in Sessions : Disconnect(u, s)
    \/ psend = NoSend /\ BroadcastBegin(NULL)
    \/ psend = NoSend /\ \E ok \in BOOLEAN : BroadcastSend(ok)
    \/ bcast.pc # "send" /\ \E u \in Users, F \in SUBSET Sessions : SendPersonal(u, F)

SpecSend == InitRegistry /\ [][NextSend]_vars

\* ================================================================ claims
\* What the claims call a task the engine must mark: not deleted, its due
\* date passed, neither COMPLETED nor OVERDUE.
PastDue(task, n) ==
    /\ ~task.is_deleted
    /\ task.due_date # NULL /\ task.due_date < n
    /\ task.status # COMPLETED /\ task.status # OVERDUE

\* ... and one it must start: not deleted, TODO, started, its due date not passed.
Startable(task, n) ==
    /\ ~task.is_deleted
    /\ task.status = TODO
    /\ task.start_date # NULL /\ task.start_date <= n
    /\ (task.due_date = NULL \/ task.due_date >= n)

EngineRan == last'.op \in EngineOps

\* C1: after one run of the sweep, the startup reconciliation or the lazy
\* evaluation, every non-deleted task whose due date had passed and that was
\* neither COMPLETED nor OVERDUE is OVERDUE.
C1_PastDueBecomesOverdue ==
    [][\A t \in DOMAIN tasks :
          (EngineRan /\ PastDue(tasks[t], now)) => tasks'[t].status = OVERDUE]_vars

C1_Witness == last.op \in EngineOps /\ last.marked # {}

\* C2: every transition to OVERDUE made by an engine run, whichever trigger
\* made it, leaves exactly one more TASK_OVERDUE notification for that task.
C2_OneNotificationPerTransition ==
    [][\A t \in DOMAIN tasks :
          (EngineRan /\ tasks[t].status # OVERDUE /\ tasks'[t].status = OVERDUE)
            => notifications'[t] = notifications[t] + 1]_vars

\* C3: once the evaluators that raced on a task with notify_overdue set have
\* all committed, the task holds exactly one TASK_OVERDUE notification.
C3_RaceYieldsOneNotification ==
    \A t \in DOMAIN tasks :
        (/\ last.op \in {"sweep_commit", "startup_commit"}
         /\ t \in last.notified
         /\ \A e \in Evaluators : t \notin Ids(e))
          => notifications[t] = 1

\* C4: a trigger that evaluates a second time, no handler having run and the
\* clock not having moved since its first run, changes no task and adds no
\* notification; and no trigger adds a notification right after another ran.
C4_SecondRunChangesNothing ==
    [][/\ (EngineRan /\ last.op = last'.op)
            => (tasks' = tasks /\ notifications' = notifications)
       /\ (EngineRan /\ last.op \in EngineOps) => notifications' = notifications]_vars

C4_Witness ==
    /\ last.op \in EngineOps
    /\ last.second
    /\ \E t \in DOMAIN tasks :
          /\ tasks[t].status = OVERDUE /\ ~tasks[t].is_deleted
          /\ Lt(tasks[t].due_date, now)
          /\ notifications[t] = 1

\* C5: after one run of any trigger, every non-deleted TODO task whose start
\* date has come and whose due date has not passed is IN_PROGRESS, and the
\* run adds no notification for it.
C5_StartedBecomesInProgress ==
    [][\A t \in DOMAIN tasks :
          (EngineRan /\ Startable(tasks[t], now))
            => (tasks'[t].status = IN_PROGRESS /\ notifications'[t] = notifications[t])]_vars

\* C6: from the same tasks table and the same now, the sweep, the startup
\* reconciliation and the lazy evaluation leave the same statuses and add
\* the same notifications.
C6_TriggersAgree ==
    /\ SweepTasks(tasks, now) = StartupTasks(tasks, now)
    /\ StartupTasks(tasks, now) = LazyTasks(tasks, now)
    /\ SweepNotified(tasks, now) = StartupNotified(tasks, now)
    /\ StartupNotified(tasks, now) = LazyNotified(tasks, now)

\* C7: a task never holds more TASK_OVERDUE notifications than the number of
\* times it moved into OVERDUE.
C7_NotificationsWithinTransitions ==
    \A t \in TaskIds : notifications[t] <= transitions[t]

\* C8: a task a user moved out of OVERDUE to COMPLETED is left as it is, with
\* no new notification, by every later engine run.
C8_CompletedStays ==
    [][\A t \in DOMAIN tasks :
          (EngineRan /\ superseded[t] /\ tasks[t].status = COMPLETED)
            => (tasks'[t] = tasks[t] /\ notifications'[t] = notifications[t])]_vars

C8_Witness ==
    /\ last.op \in EngineOps
    /\ \E t \in DOMAIN tasks :
          /\ superseded[t] /\ tasks[t].status = COMPLETED
          /\ ~tasks[t].is_deleted /\ Lt(tasks[t].due_date, now)

\* C9: a status a user set on an OVERDUE task, whose due date is still in the
\* past, is kept by every later engine run, which adds no notification for it.
C9_ManualStatusKept ==
    [][\A t \in DOMAIN tasks :
          (EngineRan /\ superseded[t] /\ Lt(tasks[t].due_date, now))
            => (tasks'[t].status = tasks[t].status
                /\ notifications'[t] = notifications[t])]_vars

CreateOps == {"create_task", "bulk_create_tasks"}

Requested(data) == IF data.status # NONE THEN data.status ELSE TODO

\* C12: every item of a create_task or bulk_create_tasks request whose
\* due_date is earlier than now and whose requested status is neither
\* COMPLETED nor OVERDUE comes back with status OVERDUE.
C12_CreatedPastDueIsOverdue ==
    last.op \in CreateOps =>
        \A i \in 1..Len(last.request) :
            (/\ Lt(last.request[i].due_date, now)
             /\ Requested(last.request[i]) \notin {COMPLETED, OVERDUE})
              => last.result[i].status = OVERDUE

C12_Witness ==
    /\ last.op \in CreateOps
    /\ \E i \in 1..Len(last.request) :
          /\ Lt(last.request[i].due_date, now)
          /\ Requested(last.request[i]) \in {TODO, IN_PROGRESS}
          /\ last.result[i].status = OVERDUE
          /\ tasks[last.result[i].id].status = OVERDUE

\* C13: a task becomes IN_PROGRESS without a user asking for that status only
\* from TODO and only when its start_date is set and not later than now: in an
\* engine run, and in a creation whose requested status is TODO.
C13_InProgressOnlyWhenStarted ==
    [][/\ EngineRan =>
            \A t \in DOMAIN tasks :
                (tasks[t].status # IN_PROGRESS /\ tasks'[t].status = IN_PROGRESS)
                  => (tasks[t].status = TODO /\ Le(tasks[t].start_date, now))
       /\ last'.op \in CreateOps =>
            \A i \in 1..Len(last'.request) :
                (/\ Requested(last'.request[i]) = TODO
                 /\ last'.result[i].status = IN_PROGRESS)
                  => Le(tasks'[last'.result[i].id].start_date, now)]_vars

SentTo(u) == {s \in Sessions : <<u, s>> \in bcast.delivered}

\* C14: a broadcast whose sends all succeed, no connect or disconnect
\* running during it, delivers to exactly the websockets of the users outside
\* the exclusion that had been connected and not disconnected when it began:
\* to both of two connected websockets of a user, to none that was
\* disconnected.
C14_BroadcastReachesRegistered ==
    (bcast.pc = "done" /\ bcast.failed = {}) =>
        /\ \A u \in Users :
              SentTo(u) = {s \in Sessions : u # bcast.exclude /\ <<u, s>> \in bcast.live}
        /\ bcast.delivered \cap bcast.gone = {}

C14_Witness ==
    /\ bcast.pc = "done"
    /\ \E u \in Users :
          /\ SentTo(u) = Sessions
          /\ Cardinality(Sessions) >= 2
    /\ \E w \in bcast.gone : w \notin bcast.delivered

\* C15: a broadcast, no connect or disconnect running during it, never
\* raises, and when it returns every websocket registered outside the
\* exclusion whose own send did not fail has received the event.
C15_SendFailureSkipped ==
    /\ bcast.pc # "raised"
    /\ bcast.pc = "done" => (bcast.start \ bcast.failed) \subseteq bcast.delivered

C15_Witness ==
    /\ bcast.pc = "done"
    /\ \E u \in Users :
          /\ <<u, 1>> \in bcast.failed
          /\ <<u, 2>> \in bcast.delivered
          /\ u \in DOMAIN active_connections
          /\ active_connections[u] = <<1, 2>>

\* C16: a broadcast during whose sends connect and disconnect run never
\* raises, and when it returns with no failed send it has delivered to every
\* websocket that was registered outside the exclusion when it began.
C16_BroadcastSurvivesRegistryChange ==
    /\ bcast.pc # "raised"
    /\ (bcast.pc = "done" /\ bcast.failed = {}) => bcast.start \subseteq bcast.delivered

\* C17: no key of the registry holds an empty list; disconnect leaves none,
\* removes the websocket, and changes nothing when the user or the websocket
\* is not registered.
C17_NoEmptyEntry ==
    /\ \A u \in DOMAIN active_connections : active_connections[u] # <<>>
    /\ \A u \in Users, s \in Sessions :
          LET after == Disconnected(active_connections, u, s)
          IN  /\ \A v \in DOMAIN after : after[v] # <<>>
              /\ s \notin Registered(after, u)
              /\ s \notin Registered(active_connections, u) => after = active_connections
    /\ \A w \in closed : w[2] \notin Registered(active_connections, w[1])

C17_Witness ==
    /\ \E u \in Users :
          /\ u \notin DOMAIN active_connections
          /\ \E s \in Sessions : <<u, s>> \in closed
    /\ DOMAIN active_connections # {}

\* C18: a get_overview request on a cache miss returns the overview of the
\* tasks table, without raising, also when one of its status UPDATEs raises.
C18_LazyFailureSwallowed ==
    last.op \in {"get_overview", "get_overview_update_fails"} =>
        (~last.raised /\ last.result = <<Overview(tasks)>>)

MutationOps ==
    {"create_task", "bulk_create_tasks", "update_task", "delete_task",
     "add_comment", "update_comment", "delete_comment"}

\* C19: after a task handler (create, bulk create, update, delete) or a
\* comment handler (add, update, delete) has run, neither the tasks:* entry
\* nor the analytics:* entry is in the cache.
C19_MutationsPurge ==
    last.op \in MutationOps => (tasks_cache = NoEntry /\ cache = NoEntry)

\* C20: a create_task or delete_task request whose cache purge raises does
\* not raise itself, and its row is written.
C20_PurgeFailureTolerated ==
    /\ last.op = "create_task_purge_fails" =>
          (~last.raised /\ last.request[1] \in DOMAIN tasks)
    /\ last.op = "delete_task_purge_fails" =>
          (~last.raised /\ tasks[last.request[1]].is_deleted)

\* C21: at no time are two periodic sweeps (process_task_overdue_check runs)
\* in flight together.
C21_SingleFlight ==
    Cardinality({e \in Evaluators : inflight[e].kind = "sweep"}) <= 1

\* C22: with the clock and the periodic sweep alone, every non-deleted task
\* whose due date has passed and that is neither COMPLETED nor OVERDUE
\* eventually is OVERDUE.
C22_EventuallyOverdue ==
    \A t \in TaskIds :
        (t \in DOMAIN tasks /\ PastDue(tasks[t], now))
          ~> (t \in DOMAIN tasks /\ tasks[t].status = OVERDUE)

C22_Witness ==
    /\ last.op = "sweep"
    /\ \E t \in last.marked : tasks[t].status = OVERDUE /\ Lt(tasks[t].due_date, now)

\* C25: when an engine run that changed a status has completed, the cache
\* holds no task listing and no overview written before the run.
C25_EngineRunPurges ==
    [][(EngineRan /\ \E t \in DOMAIN tasks : tasks'[t].status # tasks[t].status)
         => (/\ tasks_cache' = NoEntry
             /\ cache' \in {NoEntry, <<Overview(tasks')>>})]_vars

Monotonic ==
    {<<TODO, IN_PROGRESS>>, <<TODO, OVERDUE>>, <<IN_PROGRESS, OVERDUE>>}

C23_RecipientNotifiedAndMailed ==
    \A t \in DOMAIN tasks :
        LET r == Recipient(owners[t])
        IN  /\ \A u \in Users : <<t, u>> \in notif_to => u = r
            /\ \A u \in Users : <<t, u>> \in outbox => u = r
            /\ (<<t, r>> \in notif_to /\ tasks[t].notify_overdue) => <<t, r>> \in outbox

EmailFaultOps == {"sweep_enqueue_fails", "startup_email_fails", "notify_email_fails"}

\* C24: after a sweep, a startup reconciliation or a notify-overdue request
\* whose email step failed for a task, the run has not raised, the task is
\* OVERDUE and its notification exists.
C24_EmailFailureKeepsNotification ==
    last.op \in EmailFaultOps =>
        /\ ~last.raised
        /\ \A t \in last.request[1] :
              /\ tasks[t].status = OVERDUE
              /\ <<t, Recipient(owners[t])>> \in notif_to

\* C26: an engine run that changes a status while websockets are registered
\* makes a broadcast call.
C26_EngineRunBroadcasts ==
    [][(/\ EngineRan
        /\ \E t \in DOMAIN tasks : tasks'[t].status # tasks[t].status
        /\ Targets(active_connections, NULL) # {})
         => bcast' # bcast]_vars

\* C28: the result of a sweep reports as marked_overdue the number of tasks
\* the run moved into OVERDUE and as notifications_sent the number of
\* notifications it added, the second not above the first.
C28_SweepResultCounts ==
    last.op \in {"sweep", "sweep_commit"} =>
        /\ last.result[1].marked_overdue = Cardinality(last.marked)
        /\ last.result[1].notifications_sent = Cardinality(last.notified)
        /\ last.result[1].notifications_sent <= last.result[1].marked_overdue

\* C29: no websocket whose network connection has ended is in the registry.
C29_EndedNotRegistered ==
    \A w \in ended : w[2] \notin Registered(active_connections, w[1])

\* C30: a step of broadcast, and a send_personal call, leave the registry as
\* it is, and a websocket whose send failed in it is still registered.
C30_SendsLeaveRegistry ==
    [][(\/ bcast'.pc # bcast.pc \/ bcast'.idx # bcast.idx
        \/ bcast'.delivered # bcast.delivered \/ bcast'.failed # bcast.failed
        \/ bcast'.exclude # bcast.exclude
        \/ psend' # psend)
         => (/\ active_connections' = active_connections
             /\ dk_entries' = dk_entries
             /\ \A w \in bcast'.failed \ bcast.failed :
                   w[2] \in Registered(active_connections', w[1])
             /\ psend' # psend =>
                   psend'.failed \subseteq Registered(active_connections', psend'.user))]_vars

C30_Witness ==
    /\ bcast.pc = "done"
    /\ bcast.failed # {}
    /\ \A w \in bcast.failed : w[2] \in Registered(active_connections, w[1])
    /\ psend.failed # {}
    /\ psend.failed \subseteq Registered(active_connections, psend.user)

SweepFailOps == {"sweep_fails", "sweep_commit_fails", "sweep_enqueue_fails"}

\* C31: a sweep that fails before its commit changes no task and no
\* notification, and the sweep that later moves a task into OVERDUE adds its
\* one notification and enqueues no email that a failed run had enqueued.
C31_FailedSweepDefers ==
    [][/\ (last'.op \in SweepFailOps /\ last' # last) =>
              (tasks' = tasks /\ notifications' = notifications)
       /\ \A t \in DOMAIN tasks :
            (tasks[t].status # OVERDUE /\ tasks'[t].status = OVERDUE) =>
              /\ notifications'[t] =
                    notifications[t] + (IF tasks[t].notify_overdue THEN 1 ELSE 0)
              /\ \A u \in Users : <<t, u>> \in outbox' => <<t, u>> \notin outbox]_vars

\* C32: send_email_notification returns and its status is sent, skipped or
\* failed; with SMTP_USER or SMTP_PASSWORD empty it is skipped and no SMTP
\* session is ever opened, and a failing SMTP session gives failed.
C32_EmailStatus ==
    /\ (settings.SMTP_USER = "" \/ settings.SMTP_PASSWORD = "") => smtp = {}
    /\ last.op = "send_email_notification" =>
          /\ ~last.raised
          /\ last.result[1].status \in {"sent", "skipped", "failed"}
          /\ (settings.SMTP_USER = "" \/ settings.SMTP_PASSWORD = "")
                => last.result[1].status = "skipped"
          /\ (settings.SMTP_USER # "" /\ settings.SMTP_PASSWORD # "")
                => (last.result[1].status # "skipped" /\ last.request[1] \in smtp)

C32_Witness ==
    /\ last.op = "send_email_notification"
    /\ last.result[1].status = "skipped"
    /\ settings.SMTP_USER # ""

\* C33: a server start whose reconciliation failed raises nothing out of
\* lifespan and stores no status change and no notification.
C33_FailedStartupServes ==
    [][(last'.op = "startup_fails" /\ last' # last) =>
          /\ ~last'.raised
          /\ tasks' = tasks
          /\ notifications' = notifications
          /\ notif_to' = notif_to]_vars

C33_Witness ==
    /\ last.op = "startup_fails"
    /\ ~last.raised
    /\ \E t \in DOMAIN tasks : PastDue(tasks[t], now) /\ tasks[t].notify_overdue
    /\ cache # NoEntry

\* C34: a non-deleted TODO task whose start date has come and whose due date
\* has passed is OVERDUE after a run of the sweep, of the startup
\* reconciliation or of the lazy evaluation.
C34_BothRulesEndOverdue ==
    [][EngineRan =>
         \A t \in DOMAIN tasks :
            (/\ tasks[t].is_deleted = FALSE
             /\ tasks[t].status = TODO
             /\ Le(tasks[t].start_date, now)
             /\ Lt(tasks[t].due_date, now)) => tasks'[t].status = OVERDUE]_vars

C34_Witness ==
    /\ last.op = "get_overview"
    /\ \E t \in last.marked :
          /\ tasks[t].status = OVERDUE
          /\ Le(tasks[t].start_date, now)
          /\ Lt(tasks[t].due_date, now)
          /\ transitions[t] = 1

\* C35: a task that a sweep or a startup reconciliation moves into OVERDUE
\* gets one notification from that run when its notify_overdue flag is set,
\* and otherwise no notification and no email.
C35_NotifiedIffFlag ==
    [][last'.op \in {"sweep", "startup"} =>
         \A t \in DOMAIN tasks :
            (tasks[t].status # OVERDUE /\ tasks'[t].status = OVERDUE) =>
               /\ tasks[t].notify_overdue =>
                     /\ notifications'[t] = notifications[t] + 1
                     /\ t \in last'.notified
                     /\ <<t, Recipient(owners[t])>> \in notif_to'
               /\ ~tasks[t].notify_overdue =>
                     /\ notifications'[t] = notifications[t]
                     /\ t \notin last'.notified
                     /\ \A u \in Users : <<t, u>> \notin notif_to' /\ <<t, u>> \notin outbox']_vars

C35_Witness ==
    /\ last.op = "sweep"
    /\ \E t \in last.marked :
          /\ ~tasks[t].notify_overdue
          /\ owners[t].assigned_to # NULL
          /\ notifications[t] = 0
          /\ outbox = {}

\* C36: with update_task and delete_task as the only writers of the table, a
\* tasks:* entry that exists holds the listing of the table as it is now,
\* never one computed before a mutation that has completed.
C36_NoStaleListing ==
    tasks_cache # NoEntry => tasks_cache[1] = Listing(tasks, comments)

\* C37: a notify_task_overdue request adds a notification only for a task
\* that exists, is not deleted and is OVERDUE; one that is refused adds no
\* notification, starts no broadcast and hands over no email.
C37_NotifyOnlyOverdue ==
    [][/\ (last'.op = "notify_task_overdue" /\ notifications' # notifications) =>
             \A t \in last'.notified :
                /\ t \in DOMAIN tasks
                /\ tasks[t].is_deleted = FALSE
                /\ tasks[t].status = OVERDUE
       /\ (last'.op = "notify_refused" /\ last' # last) =>
             /\ notifications' = notifications
             /\ notif_to' = notif_to
             /\ outbox' = outbox
             /\ bcast' = bcast]_vars

C37_Witness ==
    /\ last.op = "notify_refused"
    /\ last.result = <<"404 Task not found">>
    /\ \E t \in DOMAIN tasks :
          /\ last.request = <<t>>
          /\ tasks[t].is_deleted
          /\ tasks[t].status = OVERDUE
          /\ notifications[t] = 0

\* C38: a connection whose token does not verify or has no subject, or whose
\* accept failed, is not in the registry and is sent no broadcast, and every
\* registered websocket came with a valid token and was accepted.
C38_OnlyValidAccepted ==
    /\ \A a \in attempts :
          (~a.valid \/ a.ws[1] = NULL \/ ~a.accept_ok) =>
             /\ a.ws \notin accepted
             /\ a.ws[2] \notin Registered(active_connections, a.ws[1])
             /\ a.ws \notin bcast.delivered \cup bcast.failed
    /\ \A u \in DOMAIN active_connections : \A s \in Registered(active_connections, u) :
          \E a \in attempts : a.ws = <<u, s>> /\ a.valid /\ a.accept_ok

C38_Witness ==
    /\ \E a \in attempts : ~a.valid /\ a.ws[1] # NULL
    /\ bcast.pc = "done"
    /\ bcast.delivered # {}

====
